---- MODULE Spec2Model ----
(***************************************************************************)
(* A model of pyomicron: the segment partitioning of                       *)
(* omicron/segments.py, the parameter validation of omicron/parameters.py, *)
(* the condor DAG utilities of omicron/condor.py and the contiguous-file   *)
(* merge of omicron/cli/omicron_merge_with_gaps.py.                        *)
(*                                                                         *)
(* Each routine is a small state machine of its own, held in one record    *)
(* variable whose fields carry the names of the routine's arguments and    *)
(* locals; each has its own specification, in which the other routines'    *)
(* records stay "off".                                                     *)
(*                                                                         *)
(* Times that the code computes with `overlap / 2.` are floats that are    *)
(* multiples of one half: they are held as a count of HALF seconds, and    *)
(* int() truncates them back to whole seconds.                             *)
(***************************************************************************)
EXTENDS Integers, Sequences, FiniteSets, TLC

VARIABLES ps, os, mg, vp, rs, sd, dg, mr, ll,
          rm, ar, ws, gp

vars == <<ps, os, mg, vp, rs, sd, dg, mr, ll, rm, ar, ws, gp>>

Off == [pc |-> "off"]

\* what each routine leaves alone: the other routines' records
PsFrame == UNCHANGED <<os, mg, vp, rs, sd, dg, mr, ll,
                       rm, ar, ws, gp>>
OsFrame == UNCHANGED <<ps, mg, vp, rs, sd, dg, mr, ll,
                       rm, ar, ws, gp>>
MgFrame == UNCHANGED <<ps, os, vp, rs, sd, dg, mr, ll,
                       rm, ar, ws, gp>>
VpFrame == UNCHANGED <<ps, os, mg, rs, sd, dg, mr, ll,
                       rm, ar, ws, gp>>
RsFrame == UNCHANGED <<ps, os, mg, vp, sd, dg, mr, ll,
                       rm, ar, ws, gp>>
SdFrame == UNCHANGED <<ps, os, mg, vp, rs, dg, mr, ll,
                       rm, ar, ws, gp>>
DgFrame == UNCHANGED <<ps, os, mg, vp, rs, sd, mr, ll,
                       rm, ar, ws, gp>>
MrFrame == UNCHANGED <<ps, os, mg, vp, rs, sd, dg, ll,
                       rm, ar, ws, gp>>
LlFrame == UNCHANGED <<ps, os, mg, vp, rs, sd, dg, mr,
                       rm, ar, ws, gp>>
RmFrame == UNCHANGED <<ps, os, mg, vp, rs, sd, dg, mr, ll,
                       ar, ws, gp>>
ArFrame == UNCHANGED <<ps, os, mg, vp, rs, sd, dg, mr, ll,
                       rm, ws, gp>>
WsFrame == UNCHANGED <<ps, os, mg, vp, rs, sd, dg, mr, ll,
                       rm, ar, gp>>
GpFrame == UNCHANGED <<ps, os, mg, vp, rs, sd, dg, mr, ll,
                       rm, ar, ws>>

\* ------------------------------------------------------------------ bounds

MaxStart == 1
MaxEnd == 13
MaxChunk == 4
MaxNPerJob == 3
MaxOutEnd == 12
MaxOutChunk == 5
MaxFiles == 3
MaxTime == 4
MaxDur == 2
MaxParam == 8
MaxDigits == 2
MaxPolls == 3

\* --------------------------------------------------------- python helpers

Min(a, b) == IF a <= b THEN a ELSE b
Max(a, b) == IF a >= b THEN a ELSE b

\* int() of a float held in half seconds: truncation towards zero
PyInt(h) == IF h >= 0 THEN h \div 2 ELSE -((-h) \div 2)

\* abs(segment): its duration
SegAbs(s) == s[2] - s[1]

\* glue.segments.segment.__or__ (== __add__): the hull of two segments that
\* intersect or touch; ValueError when they are disjoint
SegDisjoint(a, b) == a[1] > b[2] \/ a[2] < b[1]
SegUnion(a, b) == <<Min(a[1], b[1]), Max(a[2], b[2])>>

\* the integer_segments decorator, on a list of segments in half seconds
integer_segments(segs) ==
    [i \in DOMAIN segs |-> <<PyInt(segs[i][1]), PyInt(segs[i][2])>>]

InHalves(segs) == [i \in DOMAIN segs |-> <<2 * segs[i][1], 2 * segs[i][2]>>]

\* ------------------------------------------- parallel_omicron_segments

\* the arguments of the scenarios, beside the grid of small arguments
PsScenarios ==
    {[start |-> 0, end |-> 1000, chunk |-> 64, overlap |-> 8, nperjob |-> 4],
     [start |-> 0, end |-> 1000, chunk |-> 124, overlap |-> 4, nperjob |-> 4]}

PsInputs ==
    {[start |-> s, end |-> e, chunk |-> ch, overlap |-> ov, nperjob |-> n] :
        s \in 0..MaxStart, e \in 1..MaxEnd, ch \in 1..MaxChunk,
        ov \in 0..(MaxChunk - 1), n \in 1..MaxNPerJob}
    \cup PsScenarios

PsInit ==
    \E a \in PsInputs :
        /\ a.start < a.end
        /\ a.chunk > a.overlap
        /\ ps = [pc |-> "call", start |-> a.start, end |-> a.end,
                 chunk |-> a.chunk, overlap |-> a.overlap,
                 nperjob |-> a.nperjob, t |-> a.start,
                 seg |-> <<a.start, a.start>>, c |-> a.chunk, out |-> <<>>]

\* lines 224-225: a span no longer than one chunk is returned whole
PsShort ==
    /\ PsFrame
    /\ ps.pc = "call"
    /\ ps.end - ps.start <= ps.chunk
    /\ ps' = [ps EXCEPT !.pc = "done",
                        !.out = integer_segments(
                                    InHalves(<<<<ps.start, ps.end>>>>))]

\* lines 226-227
PsBegin ==
    /\ PsFrame
    /\ ps.pc = "call"
    /\ ~(ps.end - ps.start <= ps.chunk)
    /\ ps' = [ps EXCEPT !.pc = "outer", !.out = <<>>, !.t = ps.start]

\* lines 228-230: the outer loop's test and the start of a window
PsOuterCond == ps.t < ps.end - ps.overlap

PsOuter ==
    /\ PsFrame
    /\ ps.pc = "outer"
    /\ PsOuterCond
    /\ ps' = [ps EXCEPT !.pc = "inner", !.seg = <<ps.t, ps.t>>,
                        !.c = ps.chunk]

\* lines 231-233: one pass of the inner loop
PsInnerCond ==
    SegAbs(ps.seg) < ps.chunk * ps.nperjob /\ ps.seg[2] < ps.end

PsNextStep_WholeChunk == ps.chunk

PsNextStep_NoStep == ps.chunk - ps.chunk

\* line 233
PsNextStep == ps.chunk - ps.overlap

PsInner ==
    /\ PsFrame
    /\ ps.pc = "inner"
    /\ PsInnerCond
    /\ ps' = [ps EXCEPT !.seg = <<ps.seg[1], Min(ps.seg[2] + ps.c, ps.end)>>,
                        !.c = PsNextStep]

PsTooShort_Never == FALSE

\* line 234: a window shorter than one chunk is merged into the one before
PsTooShort == SegAbs(ps.seg) < ps.chunk

PsNextT_NoOverlap == ps.seg[2]

\* line 238
PsNextT == ps.seg[2] - ps.overlap

\* lines 234-238: the window is merged or appended, and t moves on
PsEmit ==
    /\ PsFrame
    /\ ps.pc = "inner"
    /\ ~PsInnerCond
    /\ IF PsTooShort
       THEN IF ps.out = <<>>
            THEN ps' = [ps EXCEPT !.pc = "IndexError"]
            ELSE LET last == ps.out[Len(ps.out)] IN
                 IF SegDisjoint(last, ps.seg)
                 THEN ps' = [ps EXCEPT !.pc = "ValueError"]
                 ELSE ps' = [ps EXCEPT
                                !.pc = "outer",
                                !.out = [ps.out EXCEPT ![Len(ps.out)] =
                                            SegUnion(last, ps.seg)],
                                !.t = PsNextT]
       ELSE ps' = [ps EXCEPT !.pc = "outer",
                             !.out = Append(ps.out, ps.seg),
                             !.t = PsNextT]

\* line 239 under the integer_segments decorator of line 196
PsReturn ==
    /\ PsFrame
    /\ ps.pc = "outer"
    /\ ~PsOuterCond
    /\ ps' = [ps EXCEPT !.pc = "done",
                        !.out = integer_segments(InHalves(ps.out))]

PsNext == PsShort \/ PsBegin \/ PsOuter \/ PsInner \/ PsEmit \/ PsReturn

InitPartition ==
    /\ PsInit
    /\ os = Off /\ mg = Off /\ vp = Off /\ rs = Off /\ sd = Off /\ dg = Off
    /\ mr = Off /\ ll = Off
    /\ rm = Off /\ ar = Off /\ ws = Off /\ gp = Off

SpecPartition == InitPartition /\ [][PsNext]_vars

\* the call is a sequential computation: while a statement is left to
\* execute, the interpreter executes it
SpecPartitionFair == SpecPartition /\ WF_vars(PsNext)

\* C1: for start < end, chunk > overlap >= 0, nperjob >= 1 and
\* end - start > chunk, the windows returned by parallel_omicron_segments
\* begin at start, end at end, leave no point of [start, end) uncovered, and
\* each window after the first starts exactly `overlap` before the end of
\* the window before it.
C1_WindowsCoverWithOverlap ==
    (ps.pc = "done" /\ ps.end - ps.start > ps.chunk) =>
        /\ Len(ps.out) >= 1
        /\ ps.out[1][1] = ps.start
        /\ ps.out[Len(ps.out)][2] = ps.end
        /\ \A i \in 1..Len(ps.out) : ps.out[i][1] < ps.out[i][2]
        /\ \A i \in 2..Len(ps.out) :
              /\ ps.out[i][1] = ps.out[i - 1][2] - ps.overlap
              /\ ps.out[i][1] <= ps.out[i - 1][2]
              /\ ps.out[i][2] > ps.out[i - 1][2]

\* a run that returned three windows, the last of which absorbed a remainder
C1_Witness ==
    /\ ps.pc = "done"
    /\ ps.end - ps.start > ps.chunk
    /\ ps.overlap > 0
    /\ Len(ps.out) = 3
    /\ SegAbs(ps.out[3]) > SegAbs(ps.out[2])

\* the call parallel_omicron_segments(0, 1000, chunk, overlap, 4) returned
PsCalled(chunk, overlap) ==
    /\ ps.pc = "done"
    /\ ps.start = 0 /\ ps.end = 1000 /\ ps.nperjob = 4
    /\ ps.chunk = chunk /\ ps.overlap = overlap

\* C15 as stated: parallel_omicron_segments(start=0, end=1000, chunk=64,
\* overlap=8, nperjob=4) returns exactly [(0,604),(600,1000)].
C15_ScenarioAsStated ==
    PsCalled(64, 8) => ps.out = <<<<0, 604>>, <<600, 1000>>>>

\* C15 amended: parallel_omicron_segments(start=0, end=1000, chunk=64,
\* overlap=8, nperjob=4) returns exactly [(0,288),(280,568),(560,848),
\* (840,1000)]; the windows [(0,604),(600,1000)] are what the call with
\* chunk=124 and overlap=4 returns.
C15_ScenarioWindows ==
    /\ PsCalled(64, 8) =>
          ps.out = <<<<0, 288>>, <<280, 568>>, <<560, 848>>, <<840, 1000>>>>
    /\ PsCalled(124, 4) => ps.out = <<<<0, 604>>, <<600, 1000>>>>

\* the call of the scenario returned its four windows
C15_Witness ==
    /\ PsCalled(64, 8)
    /\ Len(ps.out) = 4

\* C16: when end - start > chunk, no window returned by
\* parallel_omicron_segments is shorter than chunk: a trailing remainder
\* shorter than one chunk is merged into the window before it, which then
\* ends at end, instead of being emitted as its own window; and the window
\* it is merged into always exists and touches it: the merge is never
\* attempted while the output list is still empty.
C16_NoShortWindow ==
    /\ ps.pc \notin {"IndexError", "ValueError"}
    /\ (ps.pc = "inner" /\ ~PsInnerCond /\ PsTooShort) =>
          /\ ps.out # <<>>
          /\ ps.seg[2] = ps.end
    /\ (ps.pc \in {"outer", "inner", "done"} /\ ps.end - ps.start > ps.chunk)
          => \A i \in 1..Len(ps.out) : SegAbs(ps.out[i]) >= ps.chunk
    /\ (ps.pc = "done" /\ ps.end - ps.start > ps.chunk) =>
          /\ Len(ps.out) >= 1
          /\ ps.out[Len(ps.out)][2] = ps.end

\* a remainder shorter than one chunk is about to be merged into the
\* window before it
C16_Witness ==
    /\ ps.pc = "inner"
    /\ ~PsInnerCond
    /\ PsTooShort
    /\ Len(ps.out) >= 1
    /\ ps.overlap > 0
    /\ ps.nperjob > 1

PsLastEnd == ps.out[Len(ps.out)][2]

\* C28: parallel_omicron_segments terminates for every start < end,
\* chunk > overlap >= 0 and nperjob >= 1: each step of the inner loop
\* strictly extends the window, each pass of the outer loop ends with a
\* window end strictly greater than the end of the window before it, the
\* outer loop goes on while the last window ends before `end` and stops
\* when a window ends at `end`, and the call returns.
C28_Terminates ==
    /\ [][/\ (ps.pc = "inner" /\ ps'.pc = "inner") =>
               /\ ps'.seg[2] > ps.seg[2]
               /\ ps'.seg[1] = ps.seg[1]
               /\ ps'.seg[2] <= ps.end
          /\ (ps.pc = "inner" /\ ps'.pc # "inner") =>
               /\ ps'.pc = "outer"
               /\ ps.seg[2] > ps.t
               /\ ps.out # <<>> => ps.seg[2] > PsLastEnd
               /\ ps'.out # <<>> /\ ps'.out[Len(ps'.out)][2] = ps.seg[2]
          /\ (ps.pc = "outer" /\ ps'.pc = "inner") =>
               (ps.out = <<>> \/ PsLastEnd < ps.end)
          /\ (ps.pc = "outer" /\ ps'.pc = "done") =>
               (ps.out # <<>> /\ PsLastEnd = ps.end)]_vars
    /\ <>(ps.pc = "done")

\* a call returned two windows, each made of three steps of the inner loop
C28_Witness ==
    /\ ps.pc = "done"
    /\ ps.chunk = 3 /\ ps.overlap = 1 /\ ps.nperjob = 2
    /\ ps.out = <<<<0, 7>>, <<6, 13>>>>

\* ---------------------------------------------- omicron_output_segments

\* an engine version <<v, r>>, written vVrR; strings of this form compare
\* as the pairs do
VersionGE(a, b) == a[1] > b[1] \/ (a[1] = b[1] /\ a[2] >= b[2])

V2R2 == <<2, 2>>

OsVersions == {<<1, 3>>, <<2, 1>>, <<2, 2>>, <<2, 3>>, <<3, 0>>}

\* the arguments of the scenario, beside the grid of small arguments
OsScenarios ==
    {[start |-> 0, end |-> 100, chunk |-> 64, segment |-> 64, overlap |-> 4,
      omicron_version |-> V2R2]}

OsInputs ==
    {[start |-> s, end |-> e, chunk |-> ch, segment |-> sg, overlap |-> ov,
      omicron_version |-> v] :
        s \in 0..MaxStart, e \in 0..MaxOutEnd, ch \in 1..MaxOutChunk,
        sg \in 1..MaxOutChunk, ov \in 0..(MaxOutChunk - 1),
        v \in OsVersions}
    \cup OsScenarios

\* the parameter sets the callers pass: start <= end, and chunk, segment
\* and overlap in the order the validation requires
OsInit ==
    \E a \in OsInputs :
        /\ a.start <= a.end
        /\ a.overlap < a.segment
        /\ a.segment <= a.chunk
        /\ os = [pc |-> "call", start |-> a.start, end |-> a.end,
                 chunk |-> a.chunk, segment |-> a.segment,
                 overlap |-> a.overlap,
                 omicron_version |-> a.omicron_version,
                 t |-> 0, out |-> <<>>]

\* line 169, in half seconds: overlap / 2.
OsPadding == os.overlap
\* lines 171-173, in half seconds
OsFstart == 2 * os.start + OsPadding
OsFend == 2 * os.end - OsPadding
OsFseg == 2 * (os.segment - os.overlap)
OsFdur_ChunkAlways == 2 * (os.chunk - os.overlap)

\* lines 175-178, in half seconds
OsFdur ==
    IF VersionGE(os.omicron_version, V2R2)
    THEN OsFseg
    ELSE 2 * (os.chunk - os.overlap)

\* lines 169-174
OsBegin ==
    /\ OsFrame
    /\ os.pc = "call"
    /\ os' = [os EXCEPT !.pc = "loop", !.t = OsFstart, !.out = <<>>]

\* line 186: remaining // fseg * fseg
OsNseg(remaining) == (remaining \div OsFseg) * OsFseg

OsFiles_DropRemainder(t, e) ==
    LET remaining == e - t
        nseg == OsNseg(remaining)
    IN  IF OsFseg < remaining /\ remaining < OsFdur
        THEN <<<<t, t + nseg>>>>
        ELSE <<<<t, e>>>>

\* lines 180-191: the segments one pass of the loop appends
OsFiles(t, e) ==
    LET remaining == e - t
        nseg == OsNseg(remaining)
    IN  IF OsFseg < remaining /\ remaining < OsFdur
        THEN IF nseg # remaining
             THEN <<<<t, t + nseg>>, <<t + nseg, t + remaining>>>>
             ELSE <<<<t, t + nseg>>>>
        ELSE <<<<t, e>>>>

\* lines 179-192: one pass of the loop
OsLoop ==
    /\ OsFrame
    /\ os.pc = "loop"
    /\ os.t < OsFend
    /\ LET e == Min(os.t + OsFdur, OsFend) IN
        os' = [os EXCEPT !.out = os.out \o OsFiles(os.t, e), !.t = e]

\* line 193 under the integer_segments decorator of line 136
OsReturn ==
    /\ OsFrame
    /\ os.pc = "loop"
    /\ ~(os.t < OsFend)
    /\ os' = [os EXCEPT !.pc = "done", !.out = integer_segments(os.out)]

OsNext == OsBegin \/ OsLoop \/ OsReturn

InitOutput ==
    /\ OsInit
    /\ ps = Off /\ mg = Off /\ vp = Off /\ rs = Off /\ sd = Off /\ dg = Off
    /\ mr = Off /\ ll = Off
    /\ rm = Off /\ ar = Off /\ ws = Off /\ gp = Off

SpecOutput == InitOutput /\ [][OsNext]_vars

RECURSIVE SumDur(_)
SumDur(segs) ==
    IF segs = <<>> THEN 0
    ELSE SegAbs(segs[1]) + SumDur(Tail(segs))

\* C2: for a validated parameter set (overlap even, overlap < segment <=
\* chunk, end - start >= overlap) and either engine version, the segments
\* returned by omicron_output_segments are in increasing order, each of
\* positive length, each starting where the one before ended, the first
\* starting at start + overlap/2 and the last ending at end - overlap/2, so
\* that their durations add up to (end - overlap/2) - (start + overlap/2);
\* the list is empty exactly when end - start = overlap.
C2_OutputSegmentsTile ==
    (/\ os.pc = "done"
     /\ os.overlap % 2 = 0
     /\ os.end - os.start >= os.overlap) =>
        LET n == Len(os.out)
            fstart == os.start + os.overlap \div 2
            fend == os.end - os.overlap \div 2
        IN  /\ \A i \in 1..n : os.out[i][1] < os.out[i][2]
            /\ \A i \in 2..n : os.out[i][1] = os.out[i - 1][2]
            /\ n > 0 => os.out[1][1] = fstart /\ os.out[n][2] = fend
            /\ (n = 0) <=> (os.end - os.start = os.overlap)
            /\ SumDur(os.out) = fend - fstart

\* an old engine's run whose tail was split in two, after a whole file
C2_Witness ==
    /\ os.pc = "done"
    /\ os.overlap % 2 = 0
    /\ os.overlap > 0
    /\ ~VersionGE(os.omicron_version, V2R2)
    /\ Len(os.out) = 3
    /\ SegAbs(os.out[2]) > SegAbs(os.out[3])

\* the files of exactly d seconds that fit between t and e, each as its
\* own segment, followed by one shorter file for what is left
RECURSIVE FilesOf(_, _, _)
FilesOf(t, e, d) ==
    IF t >= e THEN <<>>
    ELSE <<<<t, Min(t + d, e)>>>> \o FilesOf(Min(t + d, e), e, d)

\* C13: for an engine older than v2r2, when the span left at the tail is
\* shorter than a full file (chunk - overlap) but longer than segment -
\* overlap, omicron_output_segments emits for that tail as many files of
\* exactly segment - overlap as fit, each as its own segment, followed by
\* one shorter file for what is left; no file of the tail is longer than
\* segment - overlap and no part of the tail is dropped.
C13_TailSplitIntoSegmentFiles ==
    (/\ os.pc = "done"
     /\ os.overlap % 2 = 0
     /\ os.end - os.start >= os.overlap
     /\ ~VersionGE(os.omicron_version, V2R2)) =>
        LET fstart == os.start + os.overlap \div 2
            fend == os.end - os.overlap \div 2
            fdur == os.chunk - os.overlap
            fseg == os.segment - os.overlap
            tail == (fend - fstart) % fdur
            nfull == (fend - fstart) \div fdur
        IN  (fseg < tail /\ tail < fdur) =>
                os.out = FilesOf(fstart, fend - tail, fdur)
                            \o FilesOf(fend - tail, fend, fseg)

\* C14: for an engine of version v2r2 or later, every segment returned by
\* omicron_output_segments except the last has duration exactly segment -
\* overlap, and the last has a positive duration of at most segment -
\* overlap; for the span [0, 100) with chunk = 64, segment = 64 and
\* overlap = 4 the result is [(2, 62), (62, 98)].
C14_SegmentSizedFiles ==
    (os.pc = "done" /\ VersionGE(os.omicron_version, V2R2)) =>
        LET n == Len(os.out)
            fseg == os.segment - os.overlap
        IN  /\ \A i \in 1..(n - 1) : SegAbs(os.out[i]) = fseg
            /\ n > 0 => SegAbs(os.out[n]) > 0 /\ SegAbs(os.out[n]) <= fseg
            /\ (/\ os.start = 0 /\ os.end = 100 /\ os.chunk = 64
                /\ os.segment = 64 /\ os.overlap = 4)
                   => os.out = <<<<2, 62>>, <<62, 98>>>>

\* a new engine's run of several segments in a chunk: whole files of
\* segment - overlap and a shorter last one
C14_Witness ==
    /\ os.pc = "done"
    /\ VersionGE(os.omicron_version, V2R2)
    /\ os.segment < os.chunk
    /\ os.overlap > 0
    /\ os.overlap % 2 = 0
    /\ Len(os.out) >= 3
    /\ SegAbs(os.out[Len(os.out)]) < os.segment - os.overlap

\* ------------------------------------------------ omicron-merge-with-gaps

\* Python's None, for start_time and end_time (GPS times are >= 0)
None == -1

\* An input path: one that does not exist or whose name does not match
\* fpat (kind "bad"), or {chan}-{stime}-{cdur}.{ext} (kind "trig").
BadFile == [kind |-> "bad"]

TrigFiles ==
    {[kind |-> "trig", chan |-> ch, stime |-> st, cdur |-> d, ext |-> x] :
        ch \in {"X", "Y"}, st \in 0..MaxTime, d \in 1..MaxDur,
        x \in {"root", "xml"}}

\* line 188, infiles.sort(): names of one directory with GPS times of equal
\* width sort by channel, then start time, then duration, then extension
ChanOrd(ch) == IF ch = "X" THEN 1 ELSE 2
ExtOrd(x) == IF x = "root" THEN 1 ELSE 2

SortsBefore(f, g) ==
    \/ ChanOrd(f.chan) < ChanOrd(g.chan)
    \/ /\ f.chan = g.chan
       /\ \/ f.stime < g.stime
          \/ /\ f.stime = g.stime
             /\ \/ f.cdur < g.cdur
                \/ f.cdur = g.cdur /\ ExtOrd(f.ext) < ExtOrd(g.ext)

NoCall == [made |-> FALSE]

MgInit ==
    \E nm \in BOOLEAN, ng \in BOOLEAN :
        mg = [pc |-> "loop", no_merge |-> nm, no_gzip |-> ng,
              nread |-> 0, prev |-> BadFile,
              curfiles |-> <<>>, start_time |-> None, end_time |-> None,
              name |-> "", ext |-> "", error_cnt |-> 0, outfiles |-> <<>>,
              call |-> NoCall, exit |-> None, merge_failed |-> FALSE]

\* line 77: the name of the output file
OutName(chan, stime, etime, ext) ==
    [chan |-> chan, start |-> stime, duration |-> etime - stime, ext |-> ext]

MergeRetry_AnyFailure(ext, returncode, legacy) == returncode # 0

\* line 105: the first run failed with the legacy signature of an xml merge
MergeRetry(ext, returncode, legacy) ==
    returncode = 1 /\ ext = "xml" /\ legacy

\* lines 102-115: the merge command returned `first`, with or without the
\* legacy signature in its error output, and `second` if it is run again
MergeRun(ext, first, legacy, second) ==
    LET retry == MergeRetry(ext, first, legacy)
        returncode == IF retry THEN second ELSE first
    IN  [runs |-> IF retry THEN 2 ELSE 1, returncode |-> returncode,
         compat |-> retry, first |-> first, legacy |-> legacy,
         logged |-> returncode # 0]

MergeRuns(ext, curfiles, outfile) ==
    IF Len(curfiles) = 1
    THEN \* lines 82-87: copied, unless it is the output file already
         IF /\ curfiles[1].chan = outfile.chan
            /\ curfiles[1].stime = outfile.start
            /\ curfiles[1].cdur = outfile.duration
            /\ curfiles[1].ext = outfile.ext
         THEN {[runs |-> 0, returncode |-> -1, compat |-> FALSE,
                first |-> -1, legacy |-> FALSE, logged |-> FALSE]}
         ELSE {[runs |-> 0, returncode |-> 0, compat |-> FALSE,
                first |-> 0, legacy |-> FALSE, logged |-> FALSE]}
    ELSE {MergeRun(ext, first, legacy, second) :
              first \in {0, 1, 2}, legacy \in BOOLEAN, second \in {0, 1}}

\* lines 77-129, do_merge: the results it can give.  The output file
\* is {chan}-{stime}-{etime - stime}.{ext}; ret is the value returned
\* ("" for None).  A single file is copied; several are merged by the merge
\* command, which is run again with --ilwdchar-compat after the legacy
\* failure of an xml merge; a merged xml file is gzipped unless skip_gzip.
do_merge(curfiles, chan, stime, etime, ext, skip_gzip) ==
    LET outfile == OutName(chan, stime, etime, ext) IN
    IF curfiles = <<>>
    THEN {[outfile |-> outfile, ret |-> "", runs |-> 0, returncode |-> -1,
           compat |-> FALSE, first |-> -1, legacy |-> FALSE,
           logged |-> FALSE, gzip |-> FALSE]}
    ELSE
    UNION {
        IF ext = "xml" /\ m.returncode = 0 /\ ~skip_gzip
        THEN {[outfile |-> outfile, ret |-> r, runs |-> m.runs,
               returncode |-> m.returncode, compat |-> m.compat,
               first |-> m.first, legacy |-> m.legacy, logged |-> m.logged,
               gzip |-> TRUE] : r \in {"path.gz", ""}}
        ELSE {[outfile |-> outfile, ret |-> "path", runs |-> m.runs,
               returncode |-> m.returncode, compat |-> m.compat,
               first |-> m.first, legacy |-> m.legacy, logged |-> m.logged,
               gzip |-> FALSE]}
        : m \in MergeRuns(ext, curfiles, outfile)}

\* lines 246-249 and 256-259: the result of a merge is counted
Counted(m, r, files, stime, etime) ==
    [m EXCEPT !.call = [made |-> TRUE, curfiles |-> files, stime |-> stime,
                        etime |-> etime, result |-> r],
              !.outfiles = IF r.ret # "" THEN Append(m.outfiles, r.ret)
                           ELSE m.outfiles,
              !.error_cnt = IF r.ret # "" THEN m.error_cnt ELSE @ + 1,
              !.merge_failed = @ \/ (r.runs >= 1 /\ r.returncode # 0)]

\* lines 201-213: a path that is skipped, or only copied under --no-merge
MgSkip ==
    /\ MgFrame
    /\ mg.pc = "loop"
    /\ mg.nread < MaxFiles
    /\ \E f \in TrigFiles \cup {BadFile} :
        /\ \/ f.kind = "bad"
           \/ mg.no_merge
        /\ f.kind = "trig" /\ mg.prev.kind = "trig" => SortsBefore(mg.prev, f)
        /\ mg' = [mg EXCEPT !.nread = @ + 1,
                            !.prev = IF f.kind = "trig" THEN f ELSE @]

\* the break in continuity hands the run's end to do_merge (line 245)
BreakEnd(etime) == etime

\* lines 215-253: one parsed file of the list
MgFile ==
    /\ MgFrame
    /\ mg.pc = "loop"
    /\ mg.nread < MaxFiles
    /\ ~mg.no_merge
    /\ \E f \in TrigFiles :
        /\ mg.prev.kind = "trig" => SortsBefore(mg.prev, f)
        /\ LET m0 == [mg EXCEPT !.nread = @ + 1, !.prev = f]
               named == [m0 EXCEPT !.name = IF @ = "" THEN f.chan ELSE @]
               typed == [named EXCEPT !.ext = IF @ = "" THEN f.ext ELSE @]
               etime == f.stime + f.cdur
           IN
           IF mg.name # "" /\ mg.name # f.chan
           THEN mg' = m0
           ELSE IF named.ext # "" /\ named.ext # f.ext
           THEN mg' = named
           ELSE IF typed.start_time = None
           THEN mg' = [typed EXCEPT !.start_time = f.stime,
                                    !.end_time = etime,
                                    !.curfiles = Append(@, f)]
           ELSE IF f.stime = typed.end_time
           THEN mg' = [typed EXCEPT !.end_time = etime,
                                    !.curfiles = Append(@, f)]
           ELSE \E r \in do_merge(typed.curfiles, typed.name,
                                  typed.start_time, BreakEnd(etime),
                                  typed.ext, typed.no_gzip) :
                    mg' = [Counted(typed, r, typed.curfiles,
                                   typed.start_time, BreakEnd(etime))
                              EXCEPT !.start_time = None,
                                     !.end_time = None,
                                     !.curfiles = <<f>>]

\* lines 264-270
ExitCode(m) == IF m.error_cnt > 0 THEN 1 ELSE 0

\* lines 254-270: the end of the list; line 77 subtracts stime from etime,
\* a TypeError when they are None
MgFinish ==
    /\ MgFrame
    /\ mg.pc = "loop"
    /\ IF mg.curfiles = <<>>
       THEN mg' = [mg EXCEPT !.pc = "exit", !.exit = ExitCode(mg)]
       ELSE IF mg.start_time = None \/ mg.end_time = None
       THEN mg' = [mg EXCEPT !.pc = "TypeError",
                             !.call = [made |-> TRUE,
                                       curfiles |-> mg.curfiles,
                                       stime |-> mg.start_time,
                                       etime |-> mg.end_time,
                                       result |-> [ret |-> ""]]]
       ELSE \E r \in do_merge(mg.curfiles, mg.name, mg.start_time,
                              mg.end_time, mg.ext, mg.no_gzip) :
               LET m1 == Counted(mg, r, mg.curfiles, mg.start_time,
                                 mg.end_time)
               IN mg' = [m1 EXCEPT !.pc = "exit", !.exit = ExitCode(m1),
                                   !.curfiles = mg.curfiles]

MgNext == MgSkip \/ MgFile \/ MgFinish

InitMerge ==
    /\ MgInit
    /\ ps = Off /\ os = Off /\ vp = Off /\ rs = Off /\ sd = Off /\ dg = Off
    /\ mr = Off /\ ll = Off
    /\ rm = Off /\ ar = Off /\ ws = Off /\ gp = Off

SpecMerge == InitMerge /\ [][MgNext]_vars

FileEnd(f) == f.stime + f.cdur

\* C3: every call to do_merge receives a run of contiguous files: each file
\* of the run after the first starts at start + duration of the file
\* before it, so that no file is merged with files across a gap.
C3_RunsAreContiguous ==
    mg.call.made =>
        \A i \in 2..Len(mg.call.curfiles) :
            mg.call.curfiles[i].stime = FileEnd(mg.call.curfiles[i - 1])

\* C4: the merged file is named {channel}-{start}-{duration}.{ext} with
\* start the start time of the first file of the run and start + duration
\* the end time of its last file, for a run closed by a break in continuity
\* as for the final run.
C4_NameSpansTheRun ==
    mg.call.made =>
        LET files == mg.call.curfiles IN
        /\ mg.call.stime = files[1].stime
        /\ mg.call.etime = FileEnd(files[Len(files)])
        /\ mg.pc # "TypeError"
        /\ mg.call.result.outfile.start = files[1].stime
        /\ mg.call.result.outfile.start + mg.call.result.outfile.duration
               = FileEnd(files[Len(files)])

\* C17: omicron-merge-with-gaps exits with a non-zero status and reports
\* an error count whenever the merge command of at least one run of files
\* finished with a non-zero return code; it exits 0 and prints the list of
\* output files only when every run was merged (or copied) successfully.
C17_FailedMergeExitsNonZero ==
    mg.pc = "exit" =>
        /\ mg.merge_failed => (mg.exit = 1 /\ mg.error_cnt > 0)
        /\ mg.exit = 0 => ~mg.merge_failed

\* C18: in do_merge the merge command is run at most twice for one run of
\* files: the second run happens only when the first returned code 1 for an
\* xml merge and its error output contains the legacy signature, and it
\* then carries the compatibility flag; after any other non-zero return the
\* command is not run again and the failure is reported (logged as an
\* error).
C18_RetryOnlyLegacyXml ==
    (mg.call.made /\ mg.pc # "TypeError") =>
        LET r == mg.call.result IN
        /\ r.runs <= 2
        /\ r.runs = 2 =>
              /\ r.first = 1
              /\ r.outfile.ext = "xml"
              /\ r.legacy
              /\ r.compat
        /\ r.runs = 1 => (~r.compat /\ r.returncode = r.first)
        /\ (r.runs = 1 /\ r.first # 0) => r.logged
        /\ (r.runs = 2 /\ r.returncode # 0) => r.logged

\* an xml merge that failed with the legacy signature was run again with
\* the compatibility flag, and failed again
C18_Witness ==
    /\ mg.call.made
    /\ mg.pc # "TypeError"
    /\ Len(mg.call.curfiles) >= 2
    /\ mg.call.result.runs = 2
    /\ mg.call.result.compat
    /\ mg.call.result.returncode # 0

\* C27: in the loop over the input files the pending run, when it is not
\* empty, has start_time equal to the start of its first file and end_time
\* equal to the end of its last file, neither being unset; so the final
\* merge after the loop is called with defined start and end times, also
\* when the last file follows a break in continuity.
C27_PendingRunHasTimes ==
    /\ (mg.pc = "loop" /\ mg.curfiles # <<>>) =>
          /\ mg.start_time # None
          /\ mg.end_time # None
          /\ mg.start_time = mg.curfiles[1].stime
          /\ mg.end_time = FileEnd(mg.curfiles[Len(mg.curfiles)])
    /\ mg.pc # "TypeError"

\* --------------------------------------------------- validate_parameters

\* the triples of the scenarios, beside the grid 0..MaxParam
VpScenarios == {<<64, 64, 8>>, <<128, 65, 8>>, <<4, 4, 0>>}

VpInputs ==
    ((0..MaxParam) \X (0..MaxParam) \X (-2..MaxParam)) \cup VpScenarios

VpInit ==
    \E a \in VpInputs :
        vp = [pc |-> "call", chunk |-> a[1], segment |-> a[2],
              overlap |-> a[3], result |-> ""]

validate_parameters_StrictSegment(chunk, segment, overlap) ==
    LET dchunk == chunk - overlap
        dseg == segment - overlap
    IN  IF ~(segment < chunk)
        THEN "Segment length is greater than chunk length"
        ELSE IF ~(overlap <= segment)
        THEN "Overlap length is greater than segment length"
        ELSE IF ~(overlap % 2 = 0)
        THEN "Padding (overlap/2) is non-integer"
        ELSE IF dseg = 0
        THEN "ZeroDivisionError"
        ELSE IF ~(dchunk % dseg = 0)
        THEN "Chunk duration doesn't allow an integer number of segments"
        ELSE "ok"

\* lines 136-145, with sampling=None: "ok" for a normal return, or the
\* message of the assertion that failed, or the ZeroDivisionError of
\* dchunk % dseg when segment = overlap
validate_parameters(chunk, segment, overlap) ==
    LET dchunk == chunk - overlap
        dseg == segment - overlap
    IN  IF ~(segment <= chunk)
        THEN "Segment length is greater than chunk length"
        ELSE IF ~(overlap <= segment)
        THEN "Overlap length is greater than segment length"
        ELSE IF ~(overlap % 2 = 0)
        THEN "Padding (overlap/2) is non-integer"
        ELSE IF dseg = 0
        THEN "ZeroDivisionError"
        ELSE IF ~(dchunk % dseg = 0)
        THEN "Chunk duration doesn't allow an integer number of segments"
        ELSE "ok"

VpValidate ==
    /\ VpFrame
    /\ vp.pc = "call"
    /\ vp' = [vp EXCEPT !.pc = "done",
                        !.result = validate_parameters(vp.chunk, vp.segment,
                                                       vp.overlap)]

VpNext == VpValidate

InitValidate ==
    /\ VpInit
    /\ ps = Off /\ os = Off /\ mg = Off /\ rs = Off /\ sd = Off /\ dg = Off
    /\ mr = Off /\ ll = Off
    /\ rm = Off /\ ar = Off /\ ws = Off /\ gp = Off

SpecValidate == InitValidate /\ [][VpNext]_vars

C10_ZeroOverlapRejected ==
    (vp.pc = "done" /\ vp.overlap = 0) => vp.result # "ok"

\* the reasons validate_parameters gives for an invariant that fails
VpReasons ==
    {"Segment length is greater than chunk length",
     "Overlap length is greater than segment length",
     "Padding (overlap/2) is non-integer",
     "Chunk duration doesn't allow an integer number of segments"}

\* C11: for every integer triple (chunk, segment, overlap),
\* validate_parameters either returns normally or fails with the validation
\* error whose reason names a violated invariant; it fails in no other way,
\* also when overlap = segment.
C11_FailsOnlyWithReason ==
    vp.pc = "done" => vp.result \in {"ok"} \cup VpReasons

\* C12: validation fails with 'Overlap is too large, cannot be more than
\* 50%' whenever the overlap is even, not larger than the segment and larger
\* than half the segment (segment = 8, overlap = 6).
C12_LargeOverlapRejected ==
    (/\ vp.pc = "done"
     /\ vp.overlap % 2 = 0
     /\ vp.overlap <= vp.segment
     /\ 2 * vp.overlap > vp.segment)
        => vp.result = "Overlap is too large, cannot be more than 50%"

\* -------------------------------------------------------- find_rescue_dag

\* A file <base>.rescue<n> of the working directory; n is written with three
\* digits when n <= 999.  "%s" is the base of a file whose name starts with
\* the two characters %s.
RsBases == {"a.dag", "b.dag", "%s"}
RsNumbers == {1, 2, 1000}
RsFileNames == {[base |-> b, n |-> n] : b \in RsBases, n \in RsNumbers}

RsInit ==
    \E d \in {"a.dag", "b.dag"}, fs \in SUBSET RsFileNames :
        rs = [pc |-> "call", dagfile |-> d, files |-> fs,
              result |-> [base |-> "", n |-> 0], error |-> ""]

\* line 140: the pattern handed to glob.  The code passes the format string
\* itself, '%s.rescue[0-9][0-9][0-9]', never filled in with dagfile.
GlobBase(dagfile) == "%s"

\* line 140, glob(): the files of the pattern, <base>.rescue and 3 digits
Glob(base, files) == {f \in files : f.base = base /\ f.n <= 999}

\* line 140, sorted(...)[-1] of names that differ in their three digits
Highest(fs) == CHOOSE f \in fs : \A g \in fs : g.n <= f.n

\* lines 139-143
RsFind ==
    /\ RsFrame
    /\ rs.pc = "call"
    /\ LET found == Glob(GlobBase(rs.dagfile), rs.files) IN
        IF found = {}
        THEN rs' = [rs EXCEPT !.pc = "done",
                              !.error = "No rescue DAG files found"]
        ELSE rs' = [rs EXCEPT !.pc = "done", !.result = Highest(found)]

RsNext == RsFind

InitRescue ==
    /\ RsInit
    /\ ps = Off /\ os = Off /\ mg = Off /\ vp = Off /\ sd = Off /\ dg = Off
    /\ mr = Off /\ ll = Off
    /\ rm = Off /\ ar = Off /\ ws = Off /\ gp = Off

SpecRescue == InitRescue /\ [][RsNext]_vars

\* C7: find_rescue_dag(dagfile) returns <dagfile>.rescueNNN with the
\* highest three-digit NNN among the rescue files of that dagfile whenever
\* one exists, and fails with 'No rescue DAG files found' if and only if
\* none exists.
C7_HighestRescueOfDag ==
    rs.pc = "done" =>
        LET mine == {f \in rs.files : f.base = rs.dagfile /\ f.n <= 999} IN
        /\ (rs.error = "No rescue DAG files found") <=> (mine = {})
        /\ mine # {} =>
              /\ rs.result \in mine
              /\ \A g \in mine : g.n <= rs.result.n

\* ------------------------------------------------------------- submit_dag

\* The output of condor_submit_dag as a sequence of tokens: the words
\* "submitted", "to" and "cluster", a space "SP", another whitespace
\* character "TAB", decimal digits, and "x" for any other text.
Digits == {"0", "1", "7"}
Whitespace == {"SP", "TAB"}

DigitVal(d) == IF d = "0" THEN 0 ELSE IF d = "1" THEN 1 ELSE 7

DigitRuns == UNION {[1..n -> Digits] : n \in 0..MaxDigits}

SdPhrases ==
    {<<>>,
     <<"submitted", "SP", "to", "SP", "cluster", "SP">>,
     <<"submitted", "TAB", "to", "SP", "cluster", "SP">>,
     <<"submitted", "SP", "to", "SP", "cluster", "TAB">>,
     <<"submitted", "SP", "cluster", "SP">>,
     <<"submitted", "SP", "to", "SP", "cluster", "SP", "x">>}

SdHeads == {<<>>, <<"1", "SP", "x", "SP">>, <<"x">>}

SdTails ==
    {<<>>, <<"x">>,
     <<"SP", "submitted", "SP", "to", "SP", "cluster", "SP", "1">>}

SdOutputs ==
    {h \o p \o d \o t :
        h \in SdHeads, p \in SdPhrases, d \in DigitRuns, t \in SdTails}

SdInit ==
    \E o \in SdOutputs, rc \in {0, 1} :
        sd = [pc |-> "call", out |-> o, returncode |-> rc,
              cluster |-> None, error |-> ""]

\* line 39, the lookbehind (?<=submitted\sto\scluster ) before position i
LookBehind(out, i) ==
    /\ i > 6
    /\ out[i - 6] = "submitted"
    /\ out[i - 5] \in Whitespace
    /\ out[i - 4] = "to"
    /\ out[i - 3] \in Whitespace
    /\ out[i - 2] = "cluster"
    /\ out[i - 1] = "SP"

\* line 39: the positions where re_dagman_cluster matches
MatchStarts(out) ==
    {i \in 1..Len(out) : out[i] \in Digits /\ LookBehind(out, i)}

\* line 39, [0-9]+ is greedy: the end of the run of digits that starts at i
RECURSIVE RunEnd(_, _)
RunEnd(out, i) ==
    IF i < Len(out) /\ out[i + 1] \in Digits THEN RunEnd(out, i + 1) ELSE i

FirstStart_Last(starts) == CHOOSE i \in starts : \A j \in starts : i >= j

\* line 102, search(): the leftmost match
FirstStart(starts) == CHOOSE i \in starts : \A j \in starts : i <= j

\* line 102, int() of a string of decimal digits
RECURSIVE PyIntStr(_)
PyIntStr(ds) ==
    IF ds = <<>> THEN 0
    ELSE 10 * PyIntStr(SubSeq(ds, 1, Len(ds) - 1)) + DigitVal(ds[Len(ds)])

\* lines 99-106; shell() (utils.py lines 60-64) raises CalledProcessError
\* when the command returns a non-zero code
SdSubmit ==
    /\ SdFrame
    /\ sd.pc = "call"
    /\ IF sd.returncode # 0
       THEN sd' = [sd EXCEPT !.pc = "done", !.error = "CalledProcessError"]
       ELSE LET starts == MatchStarts(sd.out) IN
            IF starts = {}
            THEN sd' = [sd EXCEPT
                    !.pc = "done",
                    !.error = "Failed to extract DAG cluster ID from condor_submit_dag output"]
            ELSE LET i == FirstStart(starts) IN
                 sd' = [sd EXCEPT
                    !.pc = "done",
                    !.cluster = PyIntStr(SubSeq(sd.out, i, RunEnd(sd.out, i)))]

SdNext == SdSubmit

InitSubmit ==
    /\ SdInit
    /\ ps = Off /\ os = Off /\ mg = Off /\ vp = Off /\ rs = Off /\ dg = Off
    /\ mr = Off /\ ll = Off
    /\ rm = Off /\ ar = Off /\ ws = Off /\ gp = Off

SpecSubmit == InitSubmit /\ [][SdNext]_vars

\* the value of a run of digits, most significant first
RECURSIVE Pow10(_)
Pow10(n) == IF n = 0 THEN 1 ELSE 10 * Pow10(n - 1)

Decimal(ds) ==
    LET n == Len(ds)
        F[k \in 0..n] ==
            IF k = 0 THEN 0 ELSE F[k - 1] + DigitVal(ds[k]) * Pow10(n - k)
    IN  F[n]

\* the digit runs out[i..j] that cannot be extended to the right and that
\* directly follow the given text
IdAfter(out, text) ==
    {<<i, j>> \in (1..Len(out)) \X (1..Len(out)) :
        /\ i <= j
        /\ \A k \in i..j : out[k] \in Digits
        /\ j = Len(out) \/ out[j + 1] \notin Digits
        /\ i > Len(text)
        /\ SubSeq(out, i - Len(text), i - 1) = text}

SpacedText == <<"submitted", "SP", "to", "SP", "cluster", "SP">>

WhiteTexts ==
    {<<"submitted", a, "to", b, "cluster", "SP">> :
        a \in Whitespace, b \in Whitespace}

\* the claim for one reading of "the text": the call returns the first
\* identifier that follows one of the texts, and fails when there is none
ReturnsIdAfter(texts) ==
    (sd.pc = "done" /\ sd.returncode = 0) =>
        LET ids == UNION {IdAfter(sd.out, t) : t \in texts} IN
        IF ids = {}
        THEN sd.error # "" /\ sd.cluster = None
        ELSE /\ sd.error = ""
             /\ \E id \in ids :
                   /\ \A other \in ids : id[1] <= other[1]
                   /\ sd.cluster = Decimal(SubSeq(sd.out, id[1], id[2]))

\* C8 as stated: submit_dag returns the integer that follows the text
\* 'submitted to cluster ' in the output, and fails, returning no cluster
\* id, when the output holds no such identifier.
C8_IdAfterSpacedText == ReturnsIdAfter({SpacedText})

\* C8 amended: submit_dag returns the integer that follows 'submitted',
\* 'to' and 'cluster ' with one whitespace character of any kind after each
\* of the first two words (the first such place in the output), and fails,
\* returning no cluster id, when the output holds no such identifier or the
\* command itself failed.
C8_IdAfterWhitespacedText ==
    /\ ReturnsIdAfter(WhiteTexts)
    /\ (sd.pc = "done" /\ sd.returncode # 0) =>
            sd.error # "" /\ sd.cluster = None

\* a two-digit cluster id was returned from an output that names a second
\* cluster further on
C8_Witness ==
    /\ sd.pc = "done"
    /\ sd.error = ""
    /\ sd.cluster = 17
    /\ Cardinality(MatchStarts(sd.out)) > 1

\* --------------------------------------- iterate_dag_status, get_dag_status

\* Where the scheduler holds the DAG job: in its queue, in neither the
\* queue nor the history (the job has left the queue and its history
\* record is not written yet), or in the history.
DgPlaces == {"queue", "limbo", "history"}

\* lines 197-198: the node counts of the job's ClassAds
JobAds ==
    {[total |-> 2, done |-> 0, queued |-> 2, ready |-> 0, unready |-> 0,
      failed |-> 0],
     [total |-> 2, done |-> 1, queued |-> 0, ready |-> 0, unready |-> 0,
      failed |-> 1]}

\* lines 41-50, JOB_STATUS_MAP: the JobStatus codes of the DAG's nodes
NodeLists == {<<>>, <<1>>, <<2, 5>>, <<5, 1, 2, 4>>}

Count(nodes, code) == Cardinality({i \in DOMAIN nodes : nodes[i] = code})

RunningStatus_NotDetailed(job, nodes) ==
    [total |-> job.total, done |-> job.done, queued |-> job.queued,
     ready |-> job.ready, unready |-> job.unready, failed |-> job.failed]

\* lines 228-242: the status of a DAG that is in the queue (detailed=True)
RunningStatus(job, nodes) ==
    [total |-> job.total, done |-> job.done, queued |-> job.queued,
     ready |-> job.ready, unready |-> job.unready, failed |-> job.failed,
     held |-> Count(nodes, 5), running |-> Count(nodes, 2),
     idle |-> Count(nodes, 1)]

\* lines 222-225: the status of a DAG read from the history
HistoryStatus(job, exitcode) ==
    [total |-> job.total, done |-> job.done, queued |-> job.queued,
     ready |-> job.ready, unready |-> job.unready, failed |-> job.failed,
     exitcode |-> exitcode, held |-> 0, running |-> 0, idle |-> 0]

DgInit ==
    \E p \in DgPlaces :
        dg = [pc |-> "query", sched |-> p, polls |-> 1, attempt |-> 1,
              qreads |-> 0, nreads |-> 0, hreads |-> 0,
              job |-> CHOOSE j \in JobAds : TRUE,
              yielded |-> <<>>, error |-> "", late |-> FALSE]

\* the scheduler moves the job out of its queue and writes its history
DgSched ==
    /\ DgFrame
    /\ \/ dg.sched = "queue" /\ dg' = [dg EXCEPT !.sched = "limbo"]
       \/ dg.sched = "queue" /\ dg' = [dg EXCEPT !.sched = "history"]
       \/ dg.sched = "limbo" /\ dg' = [dg EXCEPT !.sched = "history"]

Terminal_Never(status) == FALSE

\* line 160
Terminal(status) == "exitcode" \in DOMAIN status

\* a terminal status has been yielded already
TerminalYielded(d) ==
    \E i \in DOMAIN d.yielded : "exitcode" \in DOMAIN d.yielded[i]

OnIOError_ThreeCalls(d) ==
    IF d.attempt < 3
    THEN [d EXCEPT !.pc = "query", !.attempt = @ + 1]
    ELSE [d EXCEPT !.pc = "raised", !.error = "IOError"]

\* lines 153-158: an IOError of the first get_dag_status call starts a
\* second call; an IOError of the second call is raised
OnIOError(d) ==
    IF d.attempt = 1
    THEN [d EXCEPT !.pc = "query", !.attempt = 2]
    ELSE [d EXCEPT !.pc = "raised", !.error = "IOError"]

\* any other exception leaves iterate_dag_status at once
Raised(d, e) == [d EXCEPT !.pc = "raised", !.error = e]

\* line 159
Yielded(d, status) ==
    [d EXCEPT !.pc = "yielded", !.yielded = Append(@, status)]

\* a scheduler read: counted, and noted when a terminal status is out
Read(d, field) ==
    [d EXCEPT ![field] = @ + 1, !.late = @ \/ TerminalYielded(d)]

\* line 200: the query of the queue for the DAG job
DgQuery ==
    /\ DgFrame
    /\ dg.pc = "query"
    /\ LET d == Read(dg, "qreads") IN
        \/ dg' = OnIOError(d)
        \/ /\ dg.sched = "queue"
           /\ \E j \in JobAds : dg' = [d EXCEPT !.pc = "nodes", !.job = j]
        \/ /\ dg.sched # "queue"
           /\ dg' = [d EXCEPT !.pc = "hist1"]

\* lines 228-242: the query for the nodes of a DAG that is in the queue
DgNodes ==
    /\ DgFrame
    /\ dg.pc = "nodes"
    /\ LET d == Read(dg, "nreads") IN
        \/ dg' = OnIOError(d)
        \/ \E nodes \in NodeLists :
              dg' = Yielded(d, RunningStatus(dg.job, nodes))

\* lines 203-221: the first read of the history, one second after the
\* queue query came back empty
DgHist1 ==
    /\ DgFrame
    /\ dg.pc = "hist1"
    /\ LET d == Read(dg, "hreads") IN
        \/ /\ dg.sched = "history"
           /\ \E j \in JobAds, x \in {0, 1} :
                 dg' = Yielded(d, HistoryStatus(j, x))
        \/ /\ dg.sched # "history"
           /\ dg' = Raised(d, "IndexError")
        \/ \E e \in {"IOError", "KeyError"} : dg' = [d EXCEPT !.pc = "hist2"]
        \/ dg' = [d EXCEPT !.pc = "histshell"]
        \/ dg' = Raised(d, "RuntimeError")

\* lines 207-213: the second read of the history, in the handler of the
\* IOError or (ten seconds later) the KeyError of the first
DgHist2 ==
    /\ DgFrame
    /\ dg.pc = "hist2"
    /\ LET d == Read(dg, "hreads") IN
        \/ /\ dg.sched = "history"
           /\ \E j \in JobAds, x \in {0, 1} :
                 dg' = Yielded(d, HistoryStatus(j, x))
        \/ /\ dg.sched # "history"
           /\ dg' = Raised(d, "IndexError")
        \/ dg' = OnIOError(d)
        \/ \E e \in {"KeyError", "RuntimeError"} : dg' = Raised(d, e)

\* lines 214-219: after a RuntimeError that names a timeout, the history is
\* read with condor_history in a shell (lines 337-366); an empty answer
\* gives one job without ClassAds, and line 222 raises KeyError
DgHistShell ==
    /\ DgFrame
    /\ dg.pc = "histshell"
    /\ LET d == Read(dg, "hreads") IN
        \/ /\ dg.sched = "history"
           /\ \E j \in JobAds, x \in {0, 1} :
                 dg' = Yielded(d, HistoryStatus(j, x))
        \/ /\ dg.sched # "history"
           /\ dg' = Raised(d, "KeyError")
        \/ dg' = Raised(d, "CalledProcessError")

\* lines 160-162: after the yield, the loop ends at a terminal status, and
\* otherwise sleeps and polls again
DgResume ==
    /\ DgFrame
    /\ dg.pc = "yielded"
    /\ IF Terminal(dg.yielded[Len(dg.yielded)])
       THEN dg' = [dg EXCEPT !.pc = "done"]
       ELSE /\ dg.polls < MaxPolls
            /\ dg' = [dg EXCEPT !.pc = "query", !.polls = @ + 1,
                                !.attempt = 1, !.qreads = 0, !.nreads = 0,
                                !.hreads = 0]

DgNext ==
    \/ DgSched \/ DgQuery \/ DgNodes \/ DgHist1 \/ DgHist2 \/ DgHistShell
    \/ DgResume

InitDag ==
    /\ DgInit
    /\ ps = Off /\ os = Off /\ mg = Off /\ vp = Off /\ rs = Off /\ sd = Off
    /\ mr = Off /\ ll = Off
    /\ rm = Off /\ ar = Off /\ ws = Off /\ gp = Off

SpecDag == InitDag /\ [][DgNext]_vars

HasExit(status) == "exitcode" \in DOMAIN status

\* C5: the statuses yielded by iterate_dag_status end at the first terminal
\* one: every status before the last holds no exit code, a status with an
\* exit code is the last and ends the loop, and no scheduler read is made
\* after it.
C5_EndsAtFirstTerminal ==
    LET n == Len(dg.yielded) IN
    /\ \A i \in 1..(n - 1) : ~HasExit(dg.yielded[i])
    /\ (n > 0 /\ HasExit(dg.yielded[n])) => dg.pc \in {"yielded", "done"}
    /\ dg.pc = "done" => (n > 0 /\ HasExit(dg.yielded[n]))
    /\ ~dg.late

\* the loop ended at a terminal status that followed two running ones
C5_Witness ==
    /\ dg.pc = "done"
    /\ Len(dg.yielded) = 3
    /\ HasExit(dg.yielded[3])
    /\ ~HasExit(dg.yielded[1])

StatusCounts ==
    {"total", "done", "queued", "ready", "unready", "failed", "held",
     "running", "idle"}

\* C25: a status returned by get_dag_status(dagmanid, detailed=True) holds
\* an exit code if and only if the queue query of the call found the DAG
\* no longer in the scheduler queue (and then the DAG is not in the queue);
\* every returned status has the nine counts, and in a status with an exit
\* code the held, running and idle counts are zero.
C25_ExitCodeIffCompleted ==
    [][Len(dg'.yielded) = Len(dg.yielded) + 1 =>
        LET status == dg'.yielded[Len(dg'.yielded)] IN
        /\ HasExit(status) <=> dg.pc \in {"hist1", "hist2", "histshell"}
        /\ HasExit(status) => dg.sched # "queue"
        /\ ~HasExit(status) <=> dg.pc = "nodes"
        /\ StatusCounts \subseteq DOMAIN status
        /\ HasExit(status) =>
              status.held = 0 /\ status.running = 0 /\ status.idle = 0]_vars

\* a status of a queued DAG with one held, one running and one idle node
\* was followed by a status with an exit code
C25_Witness ==
    /\ Len(dg.yielded) = 2
    /\ ~HasExit(dg.yielded[1])
    /\ dg.yielded[1].held = 1 /\ dg.yielded[1].running = 1
    /\ dg.yielded[1].idle = 1
    /\ HasExit(dg.yielded[2])
    /\ dg.yielded[2].exitcode = 1

\* C26: a history read that finds no record of a DAG that has left the
\* queue is not surfaced to the caller as a failure: the read is made again
\* and the call returns the terminal status.
C26_NotFoundNotSurfaced == ~(dg.pc = "raised" /\ dg.error = "IndexError")

\* ------------------------------------------------------- segment lists

MaxRootTime == 4
MaxRootFiles == 2

Range(s) == {s[i] : i \in DOMAIN s}

\* the order of segments: by start, then by end
SegBefore(a, b) == a[1] < b[1] \/ (a[1] = b[1] /\ a[2] <= b[2])

FirstSeg(S) == CHOOSE s \in S : \A x \in S : SegBefore(s, x)

\* segmentlist.coalesce(): the segments are sorted, and one that starts
\* no later than the end of the span before it is joined to that span
RECURSIVE CoalesceFrom(_, _)
CoalesceFrom(cur, S) ==
    IF S = {} THEN <<cur>>
    ELSE LET s == FirstSeg(S) IN
         IF s[1] <= cur[2]
         THEN CoalesceFrom(<<cur[1], Max(cur[2], s[2])>>, S \ {s})
         ELSE <<cur>> \o CoalesceFrom(s, S \ {s})

coalesce(segs) ==
    LET S == Range(segs) IN
    IF S = {} THEN <<>>
    ELSE CoalesceFrom(FirstSeg(S), S \ {FirstSeg(S)})

\* ---------------------------------------------------- merge_root_files

\* an input ROOT file: the entries of its 'segments' tree; a path that is
\* not a file has none
RootSegs == {<<a, b>> : a \in 0..MaxRootTime, b \in 1..MaxRootTime}

RootFiles ==
    {[missing |-> FALSE, segs |-> <<s>>] : s \in {x \in RootSegs : x[1] < x[2]}}
    \cup {[missing |-> FALSE, segs |-> <<<<0, 1>>, <<2, 3>>>>],
          [missing |-> TRUE, segs |-> <<>>]}

TreeLists ==
    {<<"segments", "triggers", "metadata">>, <<"triggers", "segments">>,
     <<"triggers">>}

MrInit ==
    \E n \in 1..MaxRootFiles :
    \E fs \in [1..n -> RootFiles], trees \in TreeLists, strict \in BOOLEAN,
       on_missing \in {"ignore", "warn", "raise"},
       before \in {"absent", "old"} :
        mr = [pc |-> "validate", inputfiles |-> fs, trees |-> trees,
              strict |-> strict, on_missing |-> on_missing,
              outputfile |-> before, before |-> before,
              chains |-> <<>>, warnings |-> 0]

\* lines 63-71: the input files are validated
MrValidate ==
    /\ MrFrame
    /\ mr.pc = "validate"
    /\ LET missing == {i \in DOMAIN mr.inputfiles : mr.inputfiles[i].missing}
       IN  IF mr.on_missing = "ignore"
           THEN mr' = [mr EXCEPT !.pc = "trees"]
           ELSE IF mr.on_missing = "warn"
           THEN mr' = [mr EXCEPT !.pc = "trees",
                                 !.warnings = Cardinality(missing)]
           ELSE IF missing # {}
           THEN mr' = [mr EXCEPT !.pc = "IOError"]
           ELSE mr' = [mr EXCEPT !.pc = "trees"]

\* segmentlist_from_tree of the chain of all the input files
RECURSIVE ChainSegs(_)
ChainSegs(files) ==
    IF files = <<>> THEN <<>>
    ELSE files[1].segs \o ChainSegs(Tail(files))

\* line 78: the coalesced segments are more than one span
Discontiguous(files) == Len(coalesce(ChainSegs(files))) > 1

\* lines 73-80: the chain of one tree, and the strict test on 'segments'
MrChain ==
    /\ MrFrame
    /\ mr.pc = "trees"
    /\ Len(mr.chains) < Len(mr.trees)
    /\ LET tree == mr.trees[Len(mr.chains) + 1] IN
       IF mr.strict /\ tree = "segments" /\ Discontiguous(mr.inputfiles)
       THEN mr' = [mr EXCEPT !.pc = "RuntimeError",
                             !.chains = Append(@, tree)]
       ELSE mr' = [mr EXCEPT !.chains = Append(@, tree)]

\* lines 82-88: the output file is written anew with every chain
MrWrite ==
    /\ MrFrame
    /\ mr.pc = "trees"
    /\ Len(mr.chains) = Len(mr.trees)
    /\ mr' = [mr EXCEPT !.pc = "done", !.outputfile = "new"]

MrNext == MrValidate \/ MrChain \/ MrWrite

InitRoot ==
    /\ MrInit
    /\ ps = Off /\ os = Off /\ mg = Off /\ vp = Off /\ rs = Off /\ sd = Off
    /\ dg = Off /\ ll = Off
    /\ rm = Off /\ ar = Off /\ ws = Off /\ gp = Off

SpecRoot == InitRoot /\ [][MrNext]_vars

\* the unit intervals [k, k + 1) the segments cover
Cells(segs) ==
    {k \in 0..MaxRootTime : \E i \in DOMAIN segs : segs[i][1] <= k /\ k < segs[i][2]}

\* the segments cover more than one span: two covered cells with an
\* uncovered one between them
ManySpans(segs) ==
    \E j, k, l \in 0..MaxRootTime :
        /\ j < k /\ k < l
        /\ j \in Cells(segs) /\ k \notin Cells(segs) /\ l \in Cells(segs)

\* C19: merge_root_files fails with the discontiguous-data error if and
\* only if strict is set and the coalesced segments of the input files form
\* more than one span; when it fails this way no output file has been
\* created or overwritten, and with strict unset it merges the same inputs
\* without error.
C19_StrictRefusesGaps ==
    /\ mr.pc \in {"done", "RuntimeError"} =>
          ((mr.pc = "RuntimeError")
              <=> (mr.strict /\ ManySpans(ChainSegs(mr.inputfiles))))
    /\ mr.pc = "RuntimeError" => mr.outputfile = mr.before
    /\ (mr.pc \in {"done", "RuntimeError"} /\ ~mr.strict) =>
          (mr.pc = "done" /\ mr.outputfile = "new")

\* ------------------------------------------------------- find_ll_frames

MaxLlTime == 5
MaxLlFiles == 3

\* the durations of the frames of the buffer
LlDurations == {1, 2}

\* the segment of a frame file of the buffer
LlFrameSegs ==
    {<<a, a + d>> : a \in 0..(MaxLlTime - 1), d \in LlDurations}

\* the searches of the scenario, beside the grid of small searches
LlScenarios ==
    {[start |-> 0, end |-> 100,
      buffer |-> {<<0, 40>>, <<60, 100>>, <<100, 140>>}]}

LlInputs ==
    {[start |-> s, end |-> e, buffer |-> b] :
        s \in 0..MaxLlTime, e \in 0..MaxLlTime,
        b \in {x \in SUBSET LlFrameSegs : Cardinality(x) <= MaxLlFiles}}
    \cup LlScenarios

LlInit ==
    \E a \in LlInputs, on_gaps \in {"warn", "raise", "ignore"},
       tmpdir \in BOOLEAN :
        /\ a.start < a.end
        /\ ll = [pc |-> "call", start |-> a.start, end |-> a.end,
                 buffer |-> a.buffer, on_gaps |-> on_gaps,
                 tmpdir |-> tmpdir, found |-> <<>>, cache |-> <<>>,
                 missing |-> <<>>, warned |-> FALSE, copied |-> FALSE]

\* sorted(): the files of one frame type sort by GPS start
RECURSIVE SortSegs(_)
SortSegs(S) ==
    IF S = {} THEN <<>>
    ELSE <<FirstSeg(S)>> \o SortSegs(S \ {FirstSeg(S)})

\* segment.intersects, as Cache.sieve(segment=seg) applies it
Intersects(a, b) == a[2] > b[1] /\ a[1] < b[2]

\* Cache.sieve(segment=seg): the entries that intersect seg, in order
RECURSIVE Sieve(_, _)
Sieve(cache, seg) ==
    IF cache = <<>> THEN <<>>
    ELSE (IF Intersects(seg, cache[1]) THEN <<cache[1]>> ELSE <<>>)
             \o Sieve(Tail(cache), seg)

\* one segment less another: what is left of it on either side
SegSub(x, s) ==
    IF ~Intersects(x, s) THEN <<x>>
    ELSE (IF x[1] < s[1] THEN <<<<x[1], s[1]>>>> ELSE <<>>)
             \o (IF s[2] < x[2] THEN <<<<s[2], x[2]>>>> ELSE <<>>)

\* a list less one segment
RECURSIVE ListSubSeg(_, _)
ListSubSeg(segs, s) ==
    IF segs = <<>> THEN <<>>
    ELSE SegSub(segs[1], s) \o ListSubSeg(Tail(segs), s)

\* segmentlist.__sub__: a list less every segment of another
RECURSIVE SegListSub(_, _)
SegListSub(segs, others) ==
    IF others = <<>> THEN segs
    ELSE SegListSub(ListSubSeg(segs, others[1]), Tail(others))

LlMissing_Reversed(seg, cache) ==
    coalesce(SegListSub(coalesce(cache), <<seg>>))

\* lines 281-282: the requested segment less the coalesced segments found
LlMissing(seg, cache) ==
    coalesce(SegListSub(<<seg>>, coalesce(cache)))

\* line 279 with lines 301-308: the files of the buffer but one (the last
\* that glob listed, in no particular order), sorted (`found`, what
\* _find_ll_frames returns), and of these the ones that intersect the
\* requested segment
LlFind ==
    /\ LlFrame
    /\ ll.pc = "call"
    /\ \E last \in ll.buffer \cup {<<0, 0>>} :
        /\ (last = <<0, 0>>) <=> (ll.buffer = {})
        /\ ll' = [ll EXCEPT
                    !.pc = "gaps",
                    !.found = SortSegs(ll.buffer \ {last}),
                    !.cache = Sieve(SortSegs(ll.buffer \ {last}),
                                    <<ll.start, ll.end>>)]

\* lines 280-287: the missing segments are worked out and reported
LlGaps ==
    /\ LlFrame
    /\ ll.pc = "gaps"
    /\ IF ll.on_gaps = "ignore"
       THEN ll' = [ll EXCEPT !.pc = "copy"]
       ELSE LET missing == LlMissing(<<ll.start, ll.end>>, ll.cache) IN
            IF missing # <<>> /\ ll.on_gaps = "warn"
            THEN ll' = [ll EXCEPT !.pc = "copy", !.missing = missing,
                                  !.warned = TRUE]
            ELSE IF missing # <<>>
            THEN ll' = [ll EXCEPT !.pc = "RuntimeError",
                                  !.missing = missing]
            ELSE ll' = [ll EXCEPT !.pc = "copy", !.missing = missing]

\* lines 288-298: the files are copied to tmpdir if one is given
LlReturn ==
    /\ LlFrame
    /\ ll.pc = "copy"
    /\ ll' = [ll EXCEPT !.pc = "done", !.copied = ll.tmpdir]

LlNext == LlFind \/ LlGaps \/ LlReturn

InitFrames ==
    /\ LlInit
    /\ ps = Off /\ os = Off /\ mg = Off /\ vp = Off /\ rs = Off /\ sd = Off
    /\ dg = Off /\ mr = Off
    /\ rm = Off /\ ar = Off /\ ws = Off /\ gp = Off

SpecFrames == InitFrames /\ [][LlNext]_vars

\* the whole seconds [k, k + 1) of the requested span that a list covers
SpanCells(segs) ==
    {k \in ll.start..(ll.end - 1) :
        \E i \in DOMAIN segs : segs[i][1] <= k /\ k < segs[i][2]}

\* a coalesced list: spans of positive length, in order, that do not touch
IsCoalesced(segs) ==
    /\ \A i \in DOMAIN segs : segs[i][1] < segs[i][2]
    /\ \A i \in 2..Len(segs) : segs[i - 1][2] < segs[i][1]

\* C20: the gaps reported for a requested span are exactly
\* coalesce(expected) minus coalesce(actual): find_ll_frames computes the
\* missing segments as the requested segment minus the coalesced segments
\* of the files found, the result is empty if and only if the files cover
\* the whole span, and for expected [(0,100)] and actual [(0,40),(60,100)]
\* it is [(40,60)].
C20_GapsAreSpanMinusFound ==
    (ll.pc \in {"copy", "done", "RuntimeError"} /\ ll.on_gaps # "ignore") =>
        /\ IsCoalesced(ll.missing)
        /\ \A i \in DOMAIN ll.missing :
              ll.start <= ll.missing[i][1] /\ ll.missing[i][2] <= ll.end
        /\ SpanCells(ll.missing)
              = (ll.start..(ll.end - 1)) \ SpanCells(ll.cache)
        /\ (ll.missing = <<>>)
              <=> (SpanCells(ll.cache) = ll.start..(ll.end - 1))
        /\ ll.warned <=> (ll.missing # <<>> /\ ll.on_gaps = "warn")
        /\ (ll.pc = "RuntimeError")
              <=> (ll.missing # <<>> /\ ll.on_gaps = "raise")
        /\ (/\ ll.start = 0 /\ ll.end = 100
            /\ ll.cache = <<<<0, 40>>, <<60, 100>>>>)
               => ll.missing = <<<<40, 60>>>>

\* the files found leave two gaps in the requested span, one of them
\* between two files, and reach beyond its end
C20_Witness ==
    /\ ll.pc \in {"copy", "RuntimeError"}
    /\ ll.on_gaps # "ignore"
    /\ Len(ll.missing) = 2
    /\ Len(ll.cache) = 2
    /\ ll.cache[2][2] > ll.end

\* the file of the buffer with the greatest GPS start
MostRecent(buffer) == SortSegs(buffer)[Cardinality(buffer)]

\* C30: _find_ll_frames returns every matching file but the most recent
\* one (the one with the greatest GPS start), sorted, whatever the order of
\* the directory listing.
C30_DropsMostRecent ==
    ll.pc \in {"gaps", "copy", "done", "RuntimeError"} =>
        IF ll.buffer = {} THEN ll.found = <<>>
        ELSE ll.found = SortSegs(ll.buffer \ {MostRecent(ll.buffer)})

\* ------------------------------------------------------ omicron-rm-empty

MaxRmFiles == 3

\* a path of the list: one that does not exist, or a file with its name's
\* ending and the number of records of its trigger table
RmPaths ==
    {[exists |-> FALSE, ext |-> "h5", records |-> 0]}
    \cup {[exists |-> TRUE, ext |-> x, records |-> n] :
              x \in {"h5", "xml.gz", "root", "txt"}, n \in {0, 2}}

\* the table variable before the first read
NoTable == [set |-> FALSE, len |-> 0, of |-> 0]

RmInit ==
    \E n \in 0..MaxRmFiles :
    \E fs \in [1..n -> RmPaths], infiles \in BOOLEAN :
        rm = [pc |-> "args", files |-> fs, infiles |-> infiles, i |-> 1,
              table |-> NoTable, file_count |-> 0, empty_count |-> 0,
              read |-> {}, removed |-> {}]

\* lines 70-80: the list of files; line 77 reads args.infile, an attribute
\* the parser does not define, when positional arguments are given
RmArgs ==
    /\ RmFrame
    /\ rm.pc = "args"
    /\ IF rm.infiles
       THEN rm' = [rm EXCEPT !.pc = "AttributeError"]
       ELSE rm' = [rm EXCEPT !.pc = "loop"]

\* lines 85-93: the endings whose table is read
RmReadable(ext) == ext \in {"h5", "xml.gz", "root"}

\* lines 82-98: one file of the list
RmFile ==
    /\ RmFrame
    /\ rm.pc = "loop"
    /\ rm.i <= Len(rm.files)
    /\ LET f == rm.files[rm.i]
           table == IF RmReadable(f.ext)
                    THEN [set |-> TRUE, len |-> f.records, of |-> rm.i]
                    ELSE rm.table
           seen == [rm EXCEPT !.i = @ + 1, !.table = table,
                              !.file_count = @ + 1,
                              !.read = IF RmReadable(f.ext)
                                       THEN @ \cup {rm.i} ELSE @]
       IN  IF ~f.exists
           THEN rm' = [rm EXCEPT !.i = @ + 1]
           ELSE IF ~table.set
           THEN rm' = [seen EXCEPT !.pc = "UnboundLocalError"]
           ELSE IF table.len = 0
           THEN rm' = [seen EXCEPT !.removed = @ \cup {rm.i},
                                   !.empty_count = @ + 1]
           ELSE rm' = seen

\* line 100
RmReport ==
    /\ RmFrame
    /\ rm.pc = "loop"
    /\ rm.i > Len(rm.files)
    /\ rm' = [rm EXCEPT !.pc = "done"]

RmNext == RmArgs \/ RmFile \/ RmReport

InitRmEmpty ==
    /\ RmInit
    /\ ps = Off /\ os = Off /\ mg = Off /\ vp = Off /\ rs = Off /\ sd = Off
    /\ dg = Off /\ mr = Off /\ ll = Off /\ ar = Off /\ ws = Off /\ gp = Off

SpecRmEmpty == InitRmEmpty /\ [][RmNext]_vars

\* C21: for every list of files, in any order and with any file
\* extensions, omicron-rm-empty deletes a file only if that file exists and
\* the record count read from that same file is zero; a file whose own
\* record count is non-zero or was never read is never deleted, and the
\* number of files removed never exceeds the number examined.
C21_RemovesOnlyOwnEmpty ==
    rm.pc # "off" =>
        /\ \A i \in rm.removed :
              /\ rm.files[i].exists
              /\ i \in rm.read
              /\ rm.files[i].records = 0
        /\ rm.empty_count <= rm.file_count

\* ------------------------------------- get_archive_filename / process_dir

MaxArStart == 12

\* start times of every number of digits, beside the small ones
ArStarts ==
    (0..MaxArStart)
    \cup {999, 9999, 10000, 12345, 99999, 100000, 123456, 987654321,
          1000000000, 1234567890}

ArInit ==
    \E start \in ArStarts, ifo \in {"H1", "L1"},
       description \in {"GDS_CALIB_STRAIN_OMICRON", "PEM_X_OMICRON"},
       duration \in {1, 100} :
        ar = [pc |-> "call", ifo |-> ifo, description |-> description,
              start |-> start, duration |-> duration,
              filename |-> <<>>, archived |-> <<>>, copied |-> <<>>]

\* str(n) for n >= 0: its decimal digits
RECURSIVE Str(_)
Str(n) == IF n < 10 THEN <<n>> ELSE Str(n \div 10) \o <<n % 10>>

\* s[:n]
Prefix(s, n) == SubSeq(s, 1, Min(n, Len(s)))

\* '%.5d' % n: at least five digits, zeros in front
RECURSIVE Pad5(_)
Pad5(s) == IF Len(s) >= 5 THEN s ELSE Pad5(<<0>> \o s)

\* int(s) of a string of digits
RECURSIVE IntOf(_)
IntOf(s) ==
    IF s = <<>> THEN 0
    ELSE 10 * IntOf(SubSeq(s, 1, Len(s) - 1)) + s[Len(s)]

\* io.py lines 221-224
ArchiveGps5(start) ==
    IF start < 10000 THEN Pad5(Str(start)) ELSE Prefix(Str(start), 5)

\* archive.py line 90: str(int(strt/1e5))
ProcessGps5(strt) == Str(strt \div 100000)

\* io.py lines 218-225: the name of the file and its place in the archive
ArName ==
    /\ ArFrame
    /\ ar.pc = "call"
    /\ ar' = [ar EXCEPT
                !.pc = "named",
                !.filename = <<ar.ifo, ar.description, Str(ar.start),
                               Str(ar.duration)>>,
                !.archived = <<ar.ifo, ar.description,
                               ArchiveGps5(ar.start)>>]

\* archive.py lines 79-95: a file of that name is parsed (tfpat) and copied
ArProcess ==
    /\ ArFrame
    /\ ar.pc = "named"
    /\ LET ifo == ar.filename[1]
           chan == ar.filename[2]
           strt == IntOf(ar.filename[3])
       IN ar' = [ar EXCEPT !.pc = "done",
                           !.copied = <<ifo, chan, ProcessGps5(strt)>>]

ArNext == ArName \/ ArProcess

InitArchive ==
    /\ ArInit
    /\ ps = Off /\ os = Off /\ mg = Off /\ vp = Off /\ rs = Off /\ sd = Off
    /\ dg = Off /\ mr = Off /\ ll = Off /\ rm = Off /\ ws = Off /\ gp = Off

SpecArchive == InitArchive /\ [][ArNext]_vars

\* C22: for every non-negative integer start time, the archive directory
\* of a trigger file is named by the first 5 digits of its start GPS time,
\* and the two places that compute it agree: get_archive_filename and
\* archive.process_dir put a file with the same observatory, description
\* and start time in the same directory.
C22_ArchiveDirectoriesAgree ==
    ar.pc = "done" =>
        /\ ar.archived[3] = Prefix(Pad5(Str(ar.start)), 5)
        /\ ar.copied = ar.archived

\* ------------------------------------------ write_segments / read_segments

MaxWsHalf == 4
MaxWsSegs == 2

\* end points in half seconds, one of them negative
WsTimes == {-3} \cup (0..MaxWsHalf)

WsSegments == {<<a, b>> \in WsTimes \X WsTimes : a <= b}

\* the list of the repository's test, in half seconds
WsScenarios == {<<<<0, 2>>, <<2, 4>>, <<6, 8>>>>}

WsInit ==
    \E segs \in (UNION {[1..n -> WsSegments] : n \in 0..MaxWsSegs})
                    \cup WsScenarios :
        ws = [pc |-> "write", segmentlist |-> segs, file |-> <<>>,
              result |-> <<>>]

\* '%d' % x: the decimal text of x truncated to an integer
FormatD(h) ==
    LET n == PyInt(h) IN
    [minus |-> n < 0, digits |-> Str(IF n < 0 THEN -n ELSE n)]

\* int(token), the coltype of read_segments
ParseInt(token) ==
    IF token.minus THEN -IntOf(token.digits) ELSE IntOf(token.digits)

\* segment(a, b): the end points in order
MakeSegment(a, b) == IF a <= b THEN <<a, b>> ELSE <<b, a>>

\* lines 68-71: one line '%d %d' for each segment
write_segments(segmentlist) ==
    [i \in DOMAIN segmentlist |->
        <<FormatD(segmentlist[i][1]), FormatD(segmentlist[i][2])>>]

read_segments_Coalesced(file) ==
    coalesce([i \in DOMAIN file |->
                 MakeSegment(ParseInt(file[i][1]), ParseInt(file[i][2]))])

\* lines 59-61, fromsegwizard(fp, coltype=int): one segment for each line
\* of two columns, appended in the order of the lines
read_segments(file) ==
    [i \in DOMAIN file |->
        MakeSegment(ParseInt(file[i][1]), ParseInt(file[i][2]))]

WsWrite ==
    /\ WsFrame
    /\ ws.pc = "write"
    /\ ws' = [ws EXCEPT !.pc = "read",
                        !.file = write_segments(ws.segmentlist)]

WsRead ==
    /\ WsFrame
    /\ ws.pc = "read"
    /\ ws' = [ws EXCEPT !.pc = "done", !.result = read_segments(ws.file)]

WsNext == WsWrite \/ WsRead

InitSegFile ==
    /\ WsInit
    /\ ps = Off /\ os = Off /\ mg = Off /\ vp = Off /\ rs = Off /\ sd = Off
    /\ dg = Off /\ mr = Off /\ ll = Off /\ rm = Off /\ ar = Off /\ gp = Off

SpecSegFile == InitSegFile /\ [][WsNext]_vars

MaxCalls == 2
MaxChannels == 3
MaxLimit == 3

\* a dict is a set of <<key, value>> pairs with one pair for each key
Put(d, key, val) == {kv \in d : kv[1] # key} \cup {<<key, val>>}
Drop(d, key) == {kv \in d : kv[1] # key}
HasKey(d, key) == \E kv \in d : kv[1] = key
Get(d, key) == (CHOOSE kv \in d : kv[1] = key)[2]

\* lines 32-44
DEFAULTS ==
    [PARAMETER |-> {<<"CLUSTERING", "TIME">>},
     OUTPUT |-> {<<"PRODUCTS", "triggers">>, <<"VERBOSITY", "2">>,
                 <<"FORMAT", "rootxml">>, <<"NTRIGGERMAX", "1e7">>},
     DATA |-> {}]

\* line 46
UNUSED_PARAMS == {"state-flag", "frametype"}

\* lines 47-49: the option that is not a PARAMETER
InParamMap(key) == key = "sample-frequency"

\* line 91: ''.join(key.split('-')).upper()
UpperKey(key) ==
    CASE key = "q-range" -> "QRANGE"
      [] key = "qrange" -> "QRANGE"
      [] key = "frequency-range" -> "FREQUENCYRANGE"
      [] key = "mismatch-max" -> "MISMATCHMAX"
      [] OTHER -> key

\* values that are a list or a tuple (line 104)
ListValues == {"(8, 50)"}

\* the options of the section, beside channels
Configs ==
    {{},
     {<<"q-range", "4 100">>, <<"state-flag", "X1:READY">>},
     {<<"flow", "10">>, <<"fhigh", "100">>, <<"sample-frequency", "4096">>,
      <<"mismatch-max", "0.2">>},
     {<<"qlow", "4">>, <<"qhigh", "100">>}}

Kwargs == {{}, {<<"qrange", "8 50">>}, {<<"qrange", "(8, 50)">>}}

AllChannels == <<"X1:A", "X1:B", "X1:C", "X1:D", "X1:E">>

\* line 67: '%s %s' % (getfloat(low_), getfloat(high_))
RangeText(low, high) ==
    CASE low = "10" /\ high = "100" -> "10.0 100.0"
      [] low = "4" /\ high = "100" -> "4.0 100.0"

\* lines 61-73, for one range: low and high become the range
ReformatRange(cp, range_, low_, high_) ==
    LET ranged == IF ~HasKey(cp, range_) /\ HasKey(cp, low_)
                  THEN Put(cp, range_,
                           RangeText(Get(cp, low_), Get(cp, high_)))
                  ELSE cp
    IN  Drop(Drop(ranged, low_), high_)

\* lines 61-73
Reformat(cp) ==
    ReformatRange(ReformatRange(cp, "frequency-range", "flow", "fhigh"),
                  "q-range", "qlow", "qhigh")

\* lines 86-93: the options of one dict are set, in any order: a dict has
\* one value for each key
RECURSIVE SetAll(_, _)
SetAll(params, d) ==
    IF d = {} THEN params
    ELSE LET kv == CHOOSE x \in d : TRUE
             set == IF InParamMap(kv[1])
                    THEN [params EXCEPT
                            !.DATA = Put(@, "SAMPLEFREQUENCY", kv[2])]
                    ELSE [params EXCEPT
                            !.PARAMETER = Put(@, UpperKey(kv[1]), kv[2])]
         IN SetAll(set, d \ {kv})

\* line 76, DEFAULTS.copy(): the copy shares the dict of each group with
\* DEFAULTS, so what is set in a group of params is set in DEFAULTS
DictCopy(defaults, params) == params

GpInit ==
    gp = [pc |-> "idle", DEFAULTS |-> DEFAULTS, ncalls |-> 0,
          channellist |-> <<>>, channellimit |-> 1, params |-> DEFAULTS,
          config |-> {}, kwargs |-> {}, i |-> 0, parfiles |-> <<>>]

\* lines 54-93: a call, up to the parameters it will write
GpCall ==
    /\ GpFrame
    /\ gp.pc \in {"idle", "returned"}
    /\ gp.ncalls < MaxCalls
    /\ \E cp \in Configs, kw \in Kwargs, run \in {"1", "2"},
          nchan \in 1..MaxChannels, channellimit \in 1..MaxLimit :
        LET cpparams == {kv \in Reformat(cp) : kv[1] \notin UNUSED_PARAMS}
            custom == [gp.DEFAULTS EXCEPT
                         !.DATA = Put(@, "FFL", run),
                         !.OUTPUT = Put(@, "DIRECTORY", run)]
            params == SetAll(SetAll(custom, cpparams), kw)
        IN gp' = [gp EXCEPT
                    !.pc = "write", !.ncalls = @ + 1,
                    !.channellist = SubSeq(AllChannels, 1, nchan),
                    !.channellimit = channellimit,
                    !.config = cp, !.kwargs = kw,
                    !.params = params,
                    !.DEFAULTS = DictCopy(gp.DEFAULTS, params),
                    !.i = 0, !.parfiles = <<>>]

\* line 99: channellist[i * channellimit:(i+1) * channellimit]
Slice(list, i, n) == SubSeq(list, i * n + 1, Min((i + 1) * n, Len(list)))

\* lines 104-105: ' '.join is given two arguments
HasListValue(params) ==
    \E g \in {"PARAMETER", "OUTPUT", "DATA"} :
        \E kv \in params[g] : kv[2] \in ListValues

\* lines 98-113: one parameters file
GpWrite ==
    /\ GpFrame
    /\ gp.pc = "write"
    /\ gp.i * gp.channellimit < Len(gp.channellist)
    /\ IF HasListValue(gp.params)
       THEN gp' = [gp EXCEPT !.pc = "TypeError"]
       ELSE gp' = [gp EXCEPT
                     !.parfiles = Append(@,
                         [params |-> gp.params,
                          channels |-> Slice(gp.channellist, gp.i,
                                             gp.channellimit)]),
                     !.i = @ + 1]

\* line 114
GpReturn ==
    /\ GpFrame
    /\ gp.pc = "write"
    /\ ~(gp.i * gp.channellimit < Len(gp.channellist))
    /\ gp' = [gp EXCEPT !.pc = "returned"]

GpNext == GpCall \/ GpWrite \/ GpReturn

InitParams ==
    /\ GpInit
    /\ ps = Off /\ os = Off /\ mg = Off /\ vp = Off /\ rs = Off /\ sd = Off
    /\ dg = Off /\ mr = Off /\ ll = Off /\ rm = Off /\ ar = Off /\ ws = Off

SpecParams == InitParams /\ [][GpNext]_vars

gpCeil(a, b) == (a + b - 1) \div b

RECURSIVE Concat(_, _)
Concat(files, k) ==
    IF k = 0 THEN <<>> ELSE Concat(files, k - 1) \o files[k].channels

\* the files of a returned call hold the slices of its channel list
Distributed ==
    gp.pc = "returned" =>
        /\ Len(gp.parfiles) = gpCeil(Len(gp.channellist), gp.channellimit)
        /\ \A k \in 1..Len(gp.parfiles) :
            /\ gp.parfiles[k].channels =
                   [j \in 1..Min(gp.channellimit,
                                 Len(gp.channellist)
                                   - (k - 1) * gp.channellimit) |->
                       gp.channellist[(k - 1) * gp.channellimit + j]]
            /\ gp.parfiles[k].params = gp.parfiles[1].params
        /\ Concat(gp.parfiles, Len(gp.parfiles)) = gp.channellist

\* C24: a call that distributes the channel list L with a limit of n >= 1
\* channels per file returns ceil(|L|/n) files, file i holds the channels
\* L[i*n .. (i+1)*n) in order, the files together hold L, and all files
\* carry the same parameters; no call stops before it has written its files.
C24_DistributesChannels ==
    /\ gp.pc # "TypeError"
    /\ Distributed

\* C29: DEFAULTS has its initial content after any sequence of calls.
C29_DefaultsUnchanged == gp.pc # "off" => gp.DEFAULTS = DEFAULTS

====
